---- MODULE Spec2Model ----
(***************************************************************************)
(* A model of MyTorrent's bencoding codec (mytorrent/bencoding.py), its    *)
(* grammar tokens (mytorrent/tokens.py) and the tracker announce layer     *)
(* (mytorrent/tracker.py).                                                 *)
(*                                                                         *)
(* Bytes are the integers 0..255; a bytes object is a sequence of them.    *)
(* The Decoder is a step machine over its two fields (_data, _index); its  *)
(* recursion is the explicit call stack `stack`.  Python values are tagged *)
(* records; an OrderedDict is the sequence of its (key, value) pairs in    *)
(* insertion order.  Exceptions are named by their Python class.           *)
(***************************************************************************)
EXTENDS Integers, Sequences, FiniteSets, TLC

VARIABLES
    data,       \* Decoder._data
    index,      \* Decoder._index
    pc,         \* position of the running decode() call chain
    stack,      \* the _decode_list / _decode_dict frames below the current call
    buf,        \* the bytes the last _read_until returned
    strlen,     \* bytes_to_read of _decode_string
    ret,        \* the value the last finished decode() returned
    outcome,    \* "idle" | "running" | "returned" | "raised"
    err,        \* the exception class, when outcome = "raised"
    origin,     \* what the buffer was built from (bookkeeping of the inputs)
    cpc,        \* position of Tracker.connect
    session,    \* Tracker.http_client: "open" | "closed"
    conn,       \* the response context of `async with`: "none" | "held"
    status,     \* response.status
    body,       \* the bytes response.read() gives
    coutcome,   \* how connect ended: "none" | "returned" | "raised" | "cancelled"
    cerr,       \* the exception class connect raised
    log,        \* the stages the current connect call went through, in order
    calls,      \* connect calls started so far
    closes,     \* times close() released the session
    response,   \* TrackerResponse.response
    presult     \* outcome of the TrackerResponse.peers property

dvars == <<data, index, pc, stack, buf, strlen, ret, outcome, err, origin>>
tvars == <<cpc, session, conn, status, body, coutcome, cerr, log, calls, closes>>
pvars == <<response, presult>>
vars == <<dvars, tvars, pvars>>

(***************************************************************************)
(* Bounds of the model.                                                    *)
(***************************************************************************)
MaxNodes == 3       \* nodes of an encoded value tree
MaxLen == 4         \* length of an arbitrary byte buffer
MaxIntText == 3     \* bytes between `i` and `e` of an integer probe
MaxPairs == 3       \* key/value pairs of a dict probe
MaxPeers == 2       \* whole 6-byte records of a compact peers string
MaxCalls == 2       \* connect calls of one Tracker

(***************************************************************************)
(* Bytes and Python's bytes operations.                                    *)
(***************************************************************************)
Min(a, b) == IF a <= b THEN a ELSE b

\* data[lo:hi] of Python, 0-based and clamped to the buffer.
Slice(s, lo, hi) == SubSeq(s, Min(lo, Len(s)) + 1, Min(hi, Len(s)))

\* The ASCII codes used below.
Ch(c) ==
    CASE c = "i" -> 105 [] c = "l" -> 108 [] c = "d" -> 100 [] c = "e" -> 101
      [] c = ":" -> 58  [] c = "-" -> 45  [] c = "+" -> 43  [] c = "_" -> 95
      [] c = " " -> 32  [] c = "a" -> 97  [] c = "b" -> 98  [] c = "x" -> 120
      [] c = "0" -> 48  [] c = "1" -> 49  [] c = "2" -> 50  [] c = "3" -> 51
      [] c = "4" -> 52  [] c = "5" -> 53  [] c = "6" -> 54  [] c = "7" -> 55
      [] c = "8" -> 56  [] c = "9" -> 57  [] c = "s" -> 115 [] c = "p" -> 112
      [] c = "m" -> 109 [] c = "c" -> 99  [] c = "o" -> 111 [] c = "w" -> 119
      [] c = "f" -> 102 [] c = "u" -> 117 [] c = "r" -> 114 [] c = "n" -> 110
      [] c = "t" -> 116 [] c = "v" -> 118 [] c = "g" -> 103

\* A bytes literal from its characters.
B(cs) == [k \in 1..Len(cs) |-> Ch(cs[k])]

TOKEN_INTEGER == <<105>>
TOKEN_LIST == <<108>>
TOKEN_DICT == <<100>>
TOKEN_END == <<101>>
TOKEN_STRING_SEPARATOR == <<58>>

IsDigit(b) == b \in 48..57
IsSpace(b) == b \in {9, 10, 11, 12, 13, 32}

(***************************************************************************)
(* Python values.                                                          *)
(***************************************************************************)
\* Every value carries every field, so that any two values compare field by field.
Value(t, n, b, items, pairs) ==
    [t |-> t, n |-> n, b |-> b, items |-> items, pairs |-> pairs]

IntV(n) == Value("int", n, <<>>, <<>>, <<>>)
BytesV(b) == Value("bytes", 0, b, <<>>, <<>>)
ListV(items) == Value("list", 0, <<>>, items, <<>>)
DictV(pairs) == Value("dict", 0, <<>>, <<>>, pairs)
NoneV == Value("none", 0, <<>>, <<>>, <<>>)

(***************************************************************************)
(* str(n) and int(b) of Python.                                            *)
(***************************************************************************)
RECURSIVE Decimal(_)
Decimal(n) == IF n < 10 THEN <<48 + n>> ELSE Decimal(n \div 10) \o <<48 + (n % 10)>>

\* str(value) for an int.
Str(n) == IF n < 0 THEN <<45>> \o Decimal(-n) ELSE Decimal(n)

RECURSIVE LStrip(_)
LStrip(s) == IF s # <<>> /\ IsSpace(Head(s)) THEN LStrip(Tail(s)) ELSE s

RECURSIVE RStrip(_)
RStrip(s) ==
    IF s # <<>> /\ IsSpace(s[Len(s)]) THEN RStrip(SubSeq(s, 1, Len(s) - 1)) ELSE s

\* The digits of an int() literal: digits, single underscores only between digits.
DigitsOk(s) ==
    /\ s # <<>>
    /\ IsDigit(s[1]) /\ IsDigit(s[Len(s)])
    /\ \A k \in 1..Len(s) : IsDigit(s[k]) \/ s[k] = 95
    /\ \A k \in 1..(Len(s) - 1) : ~(s[k] = 95 /\ s[k + 1] = 95)

RECURSIVE DigitsVal(_, _)
DigitsVal(s, acc) ==
    IF s = <<>> THEN acc
    ELSE IF Head(s) = 95 THEN DigitsVal(Tail(s), acc)
    ELSE DigitsVal(Tail(s), 10 * acc + (Head(s) - 48))

\* int(b) for a bytes object b, base 10: surrounding whitespace is stripped, one
\* sign is accepted, leading zeros and underscores between digits are accepted.
\* ok = FALSE is ValueError.
PyInt(b) ==
    LET s == RStrip(LStrip(b))
        signed == s # <<>> /\ s[1] \in {43, 45}
        digits == IF signed THEN Tail(s) ELSE s
    IN  IF DigitsOk(digits)
        THEN [ok |-> TRUE,
              val |-> IF signed /\ s[1] = 45 THEN 0 - DigitsVal(digits, 0)
                      ELSE DigitsVal(digits, 0)]
        ELSE [ok |-> FALSE, val |-> 0]

(***************************************************************************)
(* Encoder.                                                                *)
(***************************************************************************)
_encode_int(value) == <<105>> \o Str(value) \o <<101>>

_encode_bytes(value) == Str(Len(value)) \o <<58>> \o value

RECURSIVE encode_next(_)
RECURSIVE JoinItems(_)
RECURSIVE JoinPairs(_)
\* b''.join([self.encode_next(item) for item in data])
JoinItems(items) ==
    IF items = <<>> THEN <<>> ELSE encode_next(Head(items)) \o JoinItems(Tail(items))

\* the loop of _encode_dict: key and value of every item, in stored order
JoinPairs(pairs) ==
    IF pairs = <<>> THEN <<>>
    ELSE encode_next(Head(pairs)[1]) \o encode_next(Head(pairs)[2])
         \o JoinPairs(Tail(pairs))

_encode_list(items) == <<108>> \o JoinItems(items) \o <<101>>

\* `if key and value` holds for every pair: an encoding is never empty.
_encode_dict(pairs) == <<100>> \o JoinPairs(pairs) \o <<101>>

\* Defined on int, bytes, list and dict values (any other type raises TypeError).
encode_next(v) ==
    CASE v.t = "int" -> _encode_int(v.n)
      [] v.t = "list" -> _encode_list(v.items)
      [] v.t = "dict" -> _encode_dict(v.pairs)
      [] v.t = "bytes" -> _encode_bytes(v.b)

encode(v) == encode_next(v)

(***************************************************************************)
(* Decoder: the primitives.                                                *)
(***************************************************************************)
\* _peek returns None here, the next byte (a slice of length 1) otherwise.
PeekIsNone == index + 1 >= Len(data)

_peek == Slice(data, index, index + 1)

\* self._data.index(token, self._index): the 0-based offset of the first
\* occurrence at or after the cursor, -1 when there is none (ValueError).
Occurrence(token) ==
    IF \E k \in (index + 1)..Len(data) : data[k] = token[1]
    THEN (CHOOSE k \in (index + 1)..Len(data) :
              /\ data[k] = token[1]
              /\ \A j \in (index + 1)..(k - 1) : data[j] # token[1]) - 1
    ELSE -1

\* A _read_until that leaves the cursor on the token it found.
AfterTokenOnDelimiter(occurrence) == occurrence

\* The cursor after _read_until found the token at `occurrence`.
AfterToken(occurrence) == occurrence + 1

\* The cursor after _consume.
AfterConsume == index + 1

\* _read(length) raises IndexError here.
ReadFails(length) == index + length > Len(data)

\* A _read that steps one byte past what it returned.
AfterReadSkipsOne(length) == index + length + 1

\* The cursor after _read(length).
AfterRead(length) == index + length

Raise(e) ==
    /\ outcome' = "raised"
    /\ err' = e
    /\ pc' = "halt"
    /\ UNCHANGED <<data, index, stack, buf, strlen, ret, origin>>

Frame(kind, at) ==
    [kind |-> kind, res |-> <<>>, phase |-> "key", key |-> NoneV, at |-> at]

(***************************************************************************)
(* Decoder: decode() and the functions it calls, one action per step.      *)
(***************************************************************************)
\* The dispatch of decode(): peek one byte and match it.
decode ==
    /\ pc = "decode"
    /\ IF PeekIsNone THEN Raise("EOFError")
       ELSE IF _peek \in {TOKEN_INTEGER, TOKEN_LIST, TOKEN_DICT}
       THEN /\ pc' = (CASE _peek = TOKEN_INTEGER -> "consume_int"
                        [] _peek = TOKEN_LIST -> "consume_list"
                        [] _peek = TOKEN_DICT -> "consume_dict")
            /\ UNCHANGED <<data, index, stack, buf, strlen, ret, outcome, err, origin>>
       ELSE IF _peek = TOKEN_END
       THEN /\ ret' = NoneV
            /\ pc' = "return"
            /\ UNCHANGED <<data, index, stack, buf, strlen, outcome, err, origin>>
       ELSE IF IsDigit(_peek[1])
       THEN /\ pc' = "string_until"
            /\ UNCHANGED <<data, index, stack, buf, strlen, ret, outcome, err, origin>>
       ELSE Raise("RuntimeError")
    /\ UNCHANGED <<tvars, pvars>>

\* self._consume(): of the opening token in decode(), of the END token in
\* _decode_list and _decode_dict (which then return their result).
_consume ==
    /\ pc \in {"consume_int", "consume_list", "consume_dict", "list_end", "dict_end"}
    /\ index' = AfterConsume
    /\ CASE pc = "consume_int" ->
              /\ pc' = "int_until"
              /\ UNCHANGED <<stack, ret>>
         [] pc = "consume_list" ->
              /\ pc' = "list_loop"
              /\ stack' = <<Frame("list", AfterConsume)>> \o stack
              /\ UNCHANGED ret
         [] pc = "consume_dict" ->
              /\ pc' = "dict_loop"
              /\ stack' = <<Frame("dict", AfterConsume)>> \o stack
              /\ UNCHANGED ret
         [] pc = "list_end" ->
              /\ pc' = "return"
              /\ ret' = ListV(Head(stack).res)
              /\ stack' = Tail(stack)
         [] pc = "dict_end" ->
              /\ pc' = "return"
              /\ ret' = DictV(Head(stack).res)
              /\ stack' = Tail(stack)
    /\ UNCHANGED <<data, buf, strlen, outcome, err, origin>>
    /\ UNCHANGED <<tvars, pvars>>

\* self._read_until(token), called by _decode_int (END) and _decode_string
\* (STRING_SEPARATOR).
_read_until ==
    /\ pc \in {"int_until", "string_until"}
    /\ LET token == IF pc = "int_until" THEN TOKEN_END ELSE TOKEN_STRING_SEPARATOR
           occurrence == Occurrence(token)
       IN  IF occurrence < 0 THEN Raise("RuntimeError")
           ELSE /\ buf' = Slice(data, index, occurrence)
                /\ index' = AfterToken(occurrence)
                /\ pc' = IF pc = "int_until" THEN "int_parse" ELSE "string_parse"
                /\ UNCHANGED <<data, stack, strlen, ret, outcome, err, origin>>
    /\ UNCHANGED <<tvars, pvars>>

\* return int(...) of _decode_int.
_decode_int ==
    /\ pc = "int_parse"
    /\ IF ~PyInt(buf).ok THEN Raise("ValueError")
       ELSE /\ ret' = IntV(PyInt(buf).val)
            /\ pc' = "return"
            /\ UNCHANGED <<data, index, stack, buf, strlen, outcome, err, origin>>
    /\ UNCHANGED <<tvars, pvars>>

\* bytes_to_read = int(...) of _decode_string.
_decode_string ==
    /\ pc = "string_parse"
    /\ IF ~PyInt(buf).ok THEN Raise("ValueError")
       ELSE /\ strlen' = PyInt(buf).val
            /\ pc' = "read"
            /\ UNCHANGED <<data, index, stack, buf, ret, outcome, err, origin>>
    /\ UNCHANGED <<tvars, pvars>>

\* self._read(bytes_to_read), whose result _decode_string returns.
_read ==
    /\ pc = "read"
    /\ IF ReadFails(strlen) THEN Raise("IndexError")
       ELSE /\ ret' = BytesV(Slice(data, index, index + strlen))
            /\ index' = AfterRead(strlen)
            /\ pc' = "return"
            /\ UNCHANGED <<data, stack, buf, strlen, outcome, err, origin>>
    /\ UNCHANGED <<tvars, pvars>>

\* A loop guard that only stops at the end of the buffer.
LoopUntilEndOfData == Slice(data, index, index + 1) # <<>>

\* The guard of a container's while loop holds: another iteration is run.
LoopContinues == Slice(data, index, index + 1) # TOKEN_END

\* The while loop of _decode_list: its guard, and the call of decode().
_decode_list ==
    /\ pc = "list_loop"
    /\ IF LoopContinues
       THEN /\ pc' = "decode"
            /\ stack' = <<[Head(stack) EXCEPT !.at = index]>> \o Tail(stack)
       ELSE /\ pc' = "list_end"
            /\ UNCHANGED stack
    /\ UNCHANGED <<data, index, buf, strlen, ret, outcome, err, origin>>
    /\ UNCHANGED <<tvars, pvars>>

\* The while loop of _decode_dict: its guard, and the call of decode() for the key.
_decode_dict ==
    /\ pc = "dict_loop"
    /\ IF LoopContinues
       THEN /\ pc' = "decode"
            /\ stack' = <<[Head(stack) EXCEPT !.at = index, !.phase = "key"]>>
                        \o Tail(stack)
       ELSE /\ pc' = "dict_end"
            /\ UNCHANGED stack
    /\ UNCHANGED <<data, index, buf, strlen, ret, outcome, err, origin>>
    /\ UNCHANGED <<tvars, pvars>>

\* A list or an OrderedDict is unhashable: res[key] = obj raises TypeError.
Hashable(key) == key.t \notin {"list", "dict"}

\* res[key] = obj on an OrderedDict: a key already present keeps its place.
SetItem(res, key, obj) ==
    IF \E k \in 1..Len(res) : res[k][1] = key
    THEN [k \in 1..Len(res) |-> IF res[k][1] = key THEN <<key, obj>> ELSE res[k]]
    ELSE Append(res, <<key, obj>>)

\* A decode() call returns to its caller: the top-level caller, the append of
\* _decode_list, or the key / obj assignments and res[key] = obj of _decode_dict.
Return ==
    /\ pc = "return"
    /\ IF stack = <<>>
       THEN /\ outcome' = "returned"
            /\ pc' = "halt"
            /\ UNCHANGED <<data, index, stack, buf, strlen, ret, err, origin>>
       ELSE LET f == Head(stack) IN
            IF f.kind = "list"
            THEN /\ stack' = <<[f EXCEPT !.res = Append(f.res, ret)]>> \o Tail(stack)
                 /\ pc' = "list_loop"
                 /\ UNCHANGED <<data, index, buf, strlen, ret, outcome, err, origin>>
            ELSE IF f.phase = "key"
            THEN /\ stack' = <<[f EXCEPT !.key = ret, !.phase = "obj"]>> \o Tail(stack)
                 /\ pc' = "decode"
                 /\ UNCHANGED <<data, index, buf, strlen, ret, outcome, err, origin>>
            ELSE IF ~Hashable(f.key) THEN Raise("TypeError")
            ELSE /\ stack' = <<[f EXCEPT !.res = SetItem(f.res, f.key, ret),
                                         !.phase = "key"]>> \o Tail(stack)
                 /\ pc' = "dict_loop"
                 /\ UNCHANGED <<data, index, buf, strlen, ret, outcome, err, origin>>
    /\ UNCHANGED <<tvars, pvars>>

DecoderStep ==
    \/ decode
    \/ _consume
    \/ _read_until
    \/ _decode_int
    \/ _decode_string
    \/ _read
    \/ _decode_list
    \/ _decode_dict
    \/ Return

(***************************************************************************)
(* The buffers the Decoder is run on.                                      *)
(***************************************************************************)
\* Lexicographic order of bytes objects.
RECURSIVE BytesLess(_, _)
BytesLess(a, b) ==
    IF b = <<>> THEN FALSE
    ELSE IF a = <<>> THEN TRUE
    ELSE IF Head(a) # Head(b) THEN Head(a) < Head(b)
    ELSE BytesLess(Tail(a), Tail(b))

IntAtoms == {IntV(0 - 3), IntV(0), IntV(42)}
BytesAtoms == {BytesV(<<>>), BytesV(B(<<"e">>))}
Atoms == IntAtoms \cup BytesAtoms
TreeKeys == {B(<<"a">>), B(<<"b">>)}

\* The value trees of exactly n nodes whose maps have sorted, unique bytes keys.
RECURSIVE Trees(_)
RECURSIVE Forests(_)
RECURSIVE SortedPairs(_, _)
Trees(n) ==
    LET lists == Forests(n - 1)
        dicts == SortedPairs(n - 1, TreeKeys)
    IN  (IF n = 1 THEN Atoms ELSE {})
        \cup {ListV(f) : f \in lists}
        \cup {DictV(q) : q \in dicts}

\* The sequences of value trees of m nodes in all, the first tree of k nodes.
ForestsFrom(m, k) ==
    LET firsts == Trees(k)
        rests == Forests(m - k)
    IN  {<<tr>> \o f : tr \in firsts, f \in rests}

Forests(m) ==
    IF m = 0 THEN {<<>>} ELSE UNION {ForestsFrom(m, k) : k \in 1..m}

\* The key/value pairs of m nodes in all, the first under `key` with k nodes.
SortedPairsFrom(m, keys, key, k) ==
    LET firsts == Trees(k)
        rests == SortedPairs(m - k, {k2 \in keys : BytesLess(key, k2)})
    IN  {<<<<BytesV(key), tr>>>> \o q : tr \in firsts, q \in rests}

SortedPairs(m, keys) ==
    IF m = 0 THEN {<<>>}
    ELSE UNION {SortedPairsFrom(m, keys, key, k) : key \in keys, k \in 1..m}

ValueTrees(nodes) == UNION {Trees(n) : n \in 1..nodes}

\* Dicts as they can stand on the wire: any value in key position, keys repeated.
ProbeKeys == {BytesV(B(<<"a">>)), BytesV(B(<<"b">>)), IntV(1), ListV(<<>>)}
ProbeObjs == {IntV(1), IntV(2)}
ProbeDicts(n) ==
    {DictV(q) : q \in UNION {[1..k -> ProbeKeys \X ProbeObjs] : k \in 0..n}}

Alphabet == {105, 108, 100, 101, 58, 48, 49, 97}

\* i<text>e, the text free of `e`.
IntAlphabet == {45, 43, 32, 95, 48, 51}

\* The byte strings of at most n bytes of an alphabet.
Buffers(alphabet, n) == UNION {[1..k -> alphabet] : k \in 0..n}

NamedBuffers ==
    { B(<<"e">>), B(<<"e", "e">>), B(<<"e", "i", "1", "e">>),
      B(<<"d", "1", ":", "a", "e">>), B(<<"d", "1", ":", "a", "e", "e">>),
      B(<<"d", "3", ":", "c", "o", "w", "e", "e">>),
      B(<<"i", "4", "2", "e">>), B(<<"i", "-", "3", "e">>), B(<<"i", "0", "e">>),
      B(<<"i", "0", "3", "e">>), B(<<"i", "-", "0", "e">>), B(<<"i", "4", "2">>),
      B(<<"4", ":", "s", "p", "a", "m">>), B(<<"4", ":", "s", "p">>),
      B(<<"4", "s", "p", "a", "m">>),
      B(<<"l", "4", ":", "s", "p", "a", "m", "4", ":", "e", "g", "g", "s", "e">>),
      B(<<"l", "4", ":", "s", "p", "a", "m">>),
      B(<<"d", "3", ":", "c", "o", "w", "3", ":", "m", "o", "o",
          "4", ":", "s", "p", "a", "m", "4", ":", "e", "g", "g", "s", "e">>),
      B(<<"d", "3", ":", "c", "o", "w", "3", ":", "m", "o", "o">>),
      B(<<"x">>), B(<<"x", "x">>) }

Input(kind, v, text, bytes) == [kind |-> kind, v |-> v, text |-> text, data |-> bytes]

\* The buffer is: the encoding of a value tree; a proper prefix of one; a dict
\* probe; an integer probe; an arbitrary short buffer; a named buffer.
InputChosen ==
    \/ \E v \in ValueTrees(MaxNodes) : origin = Input("tree", v, <<>>, encode(v))
    \/ \E v \in ValueTrees(MaxNodes) :
          LET b == encode(v)
          IN  \E k \in 0..(Len(b) - 1) : origin = Input("prefix", v, <<>>, SubSeq(b, 1, k))
    \/ \E v \in ProbeDicts(MaxPairs) : origin = Input("dict", v, <<>>, encode(v))
    \/ \E tx \in Buffers(IntAlphabet, MaxIntText) :
          origin = Input("int", NoneV, tx, TOKEN_INTEGER \o tx \o TOKEN_END)
    \/ \E b \in Buffers(Alphabet, MaxLen) : origin = Input("bytes", NoneV, <<>>, b)
    \/ \E b \in NamedBuffers : origin = Input("named", NoneV, <<>>, b)

(***************************************************************************)
(* The Decoder on its own: Decoder(data).decode() on every buffer.         *)
(***************************************************************************)
TrackerIdle ==
    /\ cpc = "idle" /\ session = "open" /\ conn = "none" /\ status = 0
    /\ body = <<>> /\ coutcome = "none" /\ cerr = "" /\ log = <<>>
    /\ calls = 0 /\ closes = 0

PeersIdle == response = <<>> /\ presult = [kind |-> "none", err |-> "", peers |-> <<>>]

\* Decoder.__init__ and the call of decode().
DecodeInit ==
    /\ InputChosen
    /\ data = origin.data
    /\ index = 0
    /\ pc = "decode"
    /\ stack = <<>>
    /\ buf = <<>>
    /\ strlen = 0
    /\ ret = NoneV
    /\ outcome = "running"
    /\ err = ""
    /\ TrackerIdle
    /\ PeersIdle

SpecDecode == DecodeInit /\ [][DecoderStep]_vars

FairSpecDecode == SpecDecode /\ WF_vars(DecoderStep)

(***************************************************************************)
(* TrackerResponse.peers.                                                  *)
(***************************************************************************)
PEERS_KEY == B(<<"p", "e", "e", "r", "s">>)

\* self.response[key]: found = FALSE is KeyError.
GetItem(pairs, key) ==
    IF \E k \in 1..Len(pairs) : pairs[k][1] = BytesV(key)
    THEN [found |-> TRUE,
          obj |-> pairs[CHOOSE k \in 1..Len(pairs) : pairs[k][1] = BytesV(key)][2]]
    ELSE [found |-> FALSE, obj |-> NoneV]

\* [peers[i : i + 6] for i in range(0, len(peers), 6)]
Chunks(b) == [k \in 1..((Len(b) + 5) \div 6) |-> Slice(b, 6 * (k - 1), 6 * k)]

\* socket.inet_ntoa(packed): the dotted-quad text of 4 bytes; OSError otherwise.
inet_ntoa(packed) ==
    Str(packed[1]) \o <<46>> \o Str(packed[2]) \o <<46>> \o Str(packed[3])
    \o <<46>> \o Str(packed[4])

\* A port unpacked little-endian ("<H").
_decode_port_le(port) == port[1] + 256 * port[2]

\* unpack(">H", port)[0]: big-endian unsigned short; struct.error unless 2 bytes.
_decode_port(port) == 256 * port[1] + port[2]

PeersResult(kind, e, found) == [kind |-> kind, err |-> e, peers |-> found]

\* The peers property on the value stored under b"peers".
PeersOf(pairs) ==
    LET item == GetItem(pairs, PEERS_KEY)
        value == item.obj
        chunks == Chunks(value.b)
    IN  IF ~item.found THEN PeersResult("raised", "KeyError", <<>>)
        ELSE IF value.t = "list"
        THEN PeersResult("raised", "NotImplementedError", <<>>)
        ELSE IF value.t # "bytes" THEN PeersResult("raised", "TypeError", <<>>)
        ELSE IF \E k \in 1..Len(chunks) : Len(Slice(chunks[k], 0, 4)) # 4
        THEN PeersResult("raised", "OSError", <<>>)
        ELSE IF \E k \in 1..Len(chunks) : Len(Slice(chunks[k], 4, 6)) # 2
        THEN PeersResult("raised", "struct.error", <<>>)
        ELSE PeersResult("returned", "",
                 [k \in 1..Len(chunks) |->
                     [ip |-> inet_ntoa(Slice(chunks[k], 0, 4)),
                      port |-> _decode_port(Slice(chunks[k], 4, 6))]])

\* One read of the peers property.
peers ==
    /\ presult.kind = "none"
    /\ presult' = PeersOf(response)
    /\ UNCHANGED <<response, dvars, tvars>>

PeerAddresses == {<<192, 168, 0, 1>>, <<10, 0, 0, 255>>}
PeerPorts == {<<26, 233>>, <<0, 80>>, <<255, 255>>, <<1, 0>>}
PeerRecords == {a \o q : a \in PeerAddresses, q \in PeerPorts}

RECURSIVE Flatten(_)
Flatten(ss) == IF ss = <<>> THEN <<>> ELSE Head(ss) \o Flatten(Tail(ss))

\* Compact strings of whole records, and those followed by part of a record.
WholePeers(n) == {Flatten(rs) : rs \in UNION {[1..k -> PeerRecords] : k \in 0..n}}
PartPeers(n) == {w \o SubSeq(r, 1, k) : w \in WholePeers(n), r \in PeerRecords, k \in 1..5}

PeersValues(n) ==
    {BytesV(b) : b \in WholePeers(n) \cup PartPeers(n)}
    \cup {ListV(<<>>), ListV(<<DictV(<<<<BytesV(B(<<"i", "p">>)), BytesV(B(<<"a">>))>>>>)>>),
          IntV(6)}

Responses(n) ==
    {<<<<BytesV(PEERS_KEY), v>>>> : v \in PeersValues(n)}
    \cup {<<<<BytesV(B(<<"i", "n", "t", "e", "r", "v", "a", "l">>)), IntV(9)>>,
            <<BytesV(PEERS_KEY), v>>>> : v \in PeersValues(n)}
    \cup {<<>>}

DecoderIdle ==
    /\ data = <<>> /\ index = 0 /\ pc = "halt" /\ stack = <<>> /\ buf = <<>>
    /\ strlen = 0 /\ ret = NoneV /\ outcome = "idle" /\ err = ""
    /\ origin = Input("none", NoneV, <<>>, <<>>)

\* TrackerResponse.__init__ on a decoded map.
PeersInit ==
    /\ response \in Responses(MaxPeers)
    /\ presult = PeersResult("none", "", <<>>)
    /\ DecoderIdle
    /\ TrackerIdle

SpecPeers == PeersInit /\ [][peers]_vars

(***************************************************************************)
(* Tracker.connect and Tracker.close.                                      *)
(***************************************************************************)
\* bytes.decode("utf-8") succeeds (no UnicodeDecodeError).
RECURSIVE Utf8Valid(_)
Utf8Valid(b) ==
    LET Cont(x) == x \in 128..191
        n == Len(b)
    IN  IF b = <<>> THEN TRUE
        ELSE IF b[1] < 128 THEN Utf8Valid(Tail(b))
        ELSE IF b[1] \in 194..223
        THEN n >= 2 /\ Cont(b[2]) /\ Utf8Valid(SubSeq(b, 3, n))
        ELSE IF b[1] \in 224..239
        THEN /\ n >= 3
             /\ b[2] \in (IF b[1] = 224 THEN 160..191
                          ELSE IF b[1] = 237 THEN 128..159 ELSE 128..191)
             /\ Cont(b[3])
             /\ Utf8Valid(SubSeq(b, 4, n))
        ELSE IF b[1] \in 240..244
        THEN /\ n >= 4
             /\ b[2] \in (IF b[1] = 240 THEN 144..191
                          ELSE IF b[1] = 244 THEN 128..143 ELSE 128..191)
             /\ Cont(b[3]) /\ Cont(b[4])
             /\ Utf8Valid(SubSeq(b, 5, n))
        ELSE FALSE

\* `needle in message`.
Contains(b, needle) ==
    \E k \in 0..(Len(b) - Len(needle)) : SubSeq(b, k + 1, k + Len(needle)) = needle

FAILURE == B(<<"f", "a", "i", "l", "u", "r", "e">>)

\* A raise_for_error that searches the raw bytes, valid text or not.
RaisesOnRawBytes(b) == Contains(b, FAILURE)

\* raise_for_error raises ConnectionError on this body.
RaisesForError(b) == Utf8Valid(b) /\ Contains(b, FAILURE)

HTTP_OK == 200

Statuses == {200, 404, 500}

BinaryPeer == <<192, 168, 0, 1, 26, 233>>
AsciiPeer == <<10, 0, 0, 1, 26, 80>>

Bodies ==
    { B(<<"d", "8", ":", "i", "n", "t", "e", "r", "v", "a", "l", "i", "9", "e",
          "5", ":", "p", "e", "e", "r", "s", "6", ":">>) \o BinaryPeer \o B(<<"e">>),
      B(<<"d", "5", ":", "p", "e", "e", "r", "s", "6", ":">>) \o AsciiPeer \o B(<<"e">>),
      B(<<"d", "5", ":", "p", "e", "e", "r", "s", "0", ":", "e">>),
      B(<<"d", "1", "4", ":", "f", "a", "i", "l", "u", "r", "e", " ",
          "r", "e", "a", "s", "o", "n", "3", ":", "b", "a", "d", "e">>),
      B(<<"d", "7", ":", "f", "a", "i", "l", "u", "r", "e", "6", ":">>)
          \o BinaryPeer \o B(<<"e">>),
      FAILURE,
      <<195, 169>> \o FAILURE,
      B(<<"d", "5", ":", "p", "e", "e", "r", "s", "l", "e", "e">>),
      B(<<"i", "4", "2", "e">>),
      B(<<"l", "e">>),
      B(<<"4", ":", "s", "p">>),
      B(<<"d", "1", ":", "a", "e", "e">>),
      B(<<"x", "x">>),
      <<>> }

CallEnds(how, e) ==
    /\ cpc' = "done"
    /\ coutcome' = how
    /\ cerr' = e
    /\ conn' = "none"      \* __aexit__ of `async with` releases the response

\* connect(...) is called: parameters and URL are built.
connect ==
    /\ cpc \in {"idle", "done"}
    /\ session = "open"
    /\ calls < MaxCalls
    /\ calls' = calls + 1
    /\ cpc' = "request"
    /\ log' = <<>>
    /\ coutcome' = "none" /\ cerr' = ""
    /\ status' = 0 /\ body' = <<>>
    /\ data' = <<>> /\ index' = 0 /\ pc' = "halt" /\ stack' = <<>> /\ buf' = <<>>
    /\ strlen' = 0 /\ ret' = NoneV /\ outcome' = "idle" /\ err' = ""
    /\ UNCHANGED <<origin, session, conn, closes, pvars>>

\* self.http_client.get(url): the request is sent and awaited.
Get ==
    /\ cpc = "request"
    /\ cpc' = "awaiting"
    /\ conn' = "held"
    /\ log' = Append(log, "GET")
    /\ UNCHANGED <<session, status, body, coutcome, cerr, calls, closes, dvars, pvars>>

\* The tracker's reply arrives: `async with ... as response` is entered.
Respond ==
    /\ cpc = "awaiting"
    /\ status' \in Statuses
    /\ body' \in Bodies
    /\ cpc' = "status"
    /\ UNCHANGED <<session, conn, coutcome, cerr, log, calls, closes, dvars, pvars>>

\* if response.status != 200: raise ConnectionError
CheckStatus ==
    /\ cpc = "status"
    /\ IF status # HTTP_OK
       THEN CallEnds("raised", "ConnectionError")
       ELSE cpc' = "read" /\ UNCHANGED <<conn, coutcome, cerr>>
    /\ UNCHANGED <<session, status, body, log, calls, closes, dvars, pvars>>

\* data = await response.read()
ReadBody ==
    /\ cpc = "read"
    /\ cpc' = "raise_for_error"
    /\ log' = Append(log, "read")
    /\ UNCHANGED <<session, conn, status, body, coutcome, cerr, calls, closes,
                   dvars, pvars>>

\* self.raise_for_error(data)
raise_for_error ==
    /\ cpc = "raise_for_error"
    /\ IF RaisesForError(body)
       THEN CallEnds("raised", "ConnectionError")
       ELSE cpc' = "decode" /\ UNCHANGED <<conn, coutcome, cerr>>
    /\ UNCHANGED <<session, status, body, log, calls, closes, dvars, pvars>>

\* bencoding.Decoder(data).decode() is called.
StartDecode ==
    /\ cpc = "decode"
    /\ cpc' = "decoding"
    /\ log' = Append(log, "decode")
    /\ data' = body /\ index' = 0 /\ pc' = "decode" /\ stack' = <<>>
    /\ outcome' = "running"
    /\ UNCHANGED <<buf, strlen, ret, err, origin>>
    /\ UNCHANGED <<session, conn, status, body, coutcome, cerr, calls, closes, pvars>>

\* decode() is back: its exception propagates, or the isinstance check is made
\* and TrackerResponse(decoded) returned.
FinishDecode ==
    /\ cpc = "decoding"
    /\ outcome \in {"returned", "raised"}
    /\ IF outcome = "raised" THEN CallEnds("raised", err) /\ UNCHANGED response
       ELSE IF ret.t # "dict" THEN CallEnds("raised", "TypeError") /\ UNCHANGED response
       ELSE CallEnds("returned", "") /\ response' = ret.pairs
    /\ UNCHANGED <<session, status, body, log, calls, closes, dvars, presult>>

\* The caller cancels the task while connect awaits the reply or the body.
Cancel ==
    /\ cpc \in {"awaiting", "read"}
    /\ CallEnds("cancelled", "CancelledError")
    /\ UNCHANGED <<session, status, body, log, calls, closes, dvars, pvars>>

\* close(): await self.http_client.close(), called between connect calls.
close ==
    /\ cpc \in {"idle", "done"}
    /\ session' = "closed"
    /\ closes' = IF session = "open" THEN closes + 1 ELSE closes
    /\ UNCHANGED <<cpc, conn, status, body, coutcome, cerr, log, calls, dvars, pvars>>

\* The steps the event loop runs once connect was called.
ConnectStep ==
    \/ Get
    \/ Respond
    \/ CheckStatus
    \/ ReadBody
    \/ raise_for_error
    \/ StartDecode
    \/ FinishDecode

\* Tracker.__init__: the ClientSession is created.
TrackerInit ==
    /\ TrackerIdle
    /\ DecoderIdle
    /\ response = <<>>
    /\ presult = PeersResult("none", "", <<>>)

TrackerNext ==
    \/ connect
    \/ ConnectStep
    \/ DecoderStep
    \/ Cancel
    \/ close

SpecTracker == TrackerInit /\ [][TrackerNext]_vars

\* The event loop runs a started connect to its end; nothing makes the owner
\* call connect, cancel it or call close.
FairSpecTracker == SpecTracker /\ WF_vars(ConnectStep \/ DecoderStep)

(***************************************************************************)
(* Properties of the Decoder and the Encoder.                              *)
(***************************************************************************)
Finished == outcome \in {"returned", "raised"}

\* The exception classes of the two error kinds: the buffer ended (EOFError of
\* decode, IndexError of _read), or the grammar is violated (RuntimeError of
\* decode's default case, ValueError of int()).
TruncatedErrors == {"EOFError", "IndexError"}
MalformedErrors == {"RuntimeError", "ValueError", "TypeError"}

CanonicalInt(tx) ==
    LET digits == IF tx # <<>> /\ tx[1] = 45 THEN Tail(tx) ELSE tx
    IN  /\ digits # <<>>
        /\ \A k \in 1..Len(digits) : IsDigit(digits[k])
        /\ digits[1] = 48 => (Len(digits) = 1 /\ tx = digits)

\* C2: i<text>e decodes to an integer exactly when the text is canonical
\* decimal, and fails with a malformed-input error otherwise.
IntegerOnlyCanonical ==
    (origin.kind = "int" /\ Finished) =>
        IF CanonicalInt(origin.text)
        THEN outcome = "returned" /\ ret.t = "int"
        ELSE outcome = "raised" /\ err \in MalformedErrors

\* C3: a proper prefix of a valid encoding never decodes to a value and always
\* fails with the truncated-input error, never with the malformed-input one.
PrefixIsTruncated ==
    (origin.kind = "prefix" /\ Finished) =>
        outcome = "raised" /\ err \in TruncatedErrors

RECURSIVE HasNone(_)
HasNone(v) ==
    \/ v.t = "none"
    \/ \E k \in 1..Len(v.items) : HasNone(v.items[k])
    \/ \E k \in 1..Len(v.pairs) : HasNone(v.pairs[k][1]) \/ HasNone(v.pairs[k][2])

\* C4: decode never returns null and never stores null in a map.
NeverNull == outcome = "returned" => ~HasNone(ret)

RECURSIVE MapsWellFormed(_)
MapsWellFormed(v) ==
    /\ \A k \in 1..Len(v.items) : MapsWellFormed(v.items[k])
    /\ \A k \in 1..Len(v.pairs) :
          /\ v.pairs[k][1].t = "bytes"
          /\ MapsWellFormed(v.pairs[k][2])
          /\ \A j \in 1..Len(v.pairs) : v.pairs[j][1] = v.pairs[k][1] => j = k

\* The keys of the pairs, each once, in order of first occurrence.
RECURSIVE FirstKeys(_, _)
FirstKeys(q, seen) ==
    IF q = <<>> THEN <<>>
    ELSE IF Head(q)[1] \in seen THEN FirstKeys(Tail(q), seen)
    ELSE <<Head(q)[1]>> \o FirstKeys(Tail(q), seen \cup {Head(q)[1]})

\* The value of the last pair with this key.
LastObj(q, key) ==
    q[CHOOSE k \in 1..Len(q) :
          /\ q[k][1] = key
          /\ \A j \in (k + 1)..Len(q) : q[j][1] # key][2]

\* C5: every decoded map has only bytes keys, each once, in order of first
\* occurrence and bound to the value of the last occurrence; a dict with
\* another value in key position is rejected as malformed.
MapKeys ==
    /\ outcome = "returned" => MapsWellFormed(ret)
    /\ (origin.kind = "dict" /\ Finished) =>
          IF \A k \in 1..Len(origin.v.pairs) : origin.v.pairs[k][1].t = "bytes"
          THEN /\ outcome = "returned"
               /\ [k \in 1..Len(ret.pairs) |-> ret.pairs[k][1]]
                      = FirstKeys(origin.v.pairs, {})
               /\ \A k \in 1..Len(ret.pairs) :
                      ret.pairs[k][2] = LastObj(origin.v.pairs, ret.pairs[k][1])
          ELSE outcome = "raised" /\ err \in MalformedErrors

\* One step of the cursor.
CursorStep ==
    /\ index' >= index
    /\ 0 <= index' /\ index' <= Len(data')
    /\ CASE pc \in {"consume_int", "consume_list", "consume_dict",
                    "list_end", "dict_end"} ->
              index' = index + 1
         [] pc = "read" ->
              IF outcome' = "raised" THEN index' = index
              ELSE index' = index + strlen /\ Len(ret'.b) = strlen
         [] pc \in {"int_until", "string_until"} ->
              IF outcome' = "raised" THEN index' = index
              ELSE /\ index' = index + Len(buf') + 1
                   /\ buf' \o (IF pc = "int_until" THEN TOKEN_END
                               ELSE TOKEN_STRING_SEPARATOR)
                          = SubSeq(data, index + 1, index')
         [] OTHER -> index' = index

\* C9: the cursor never decreases and stays within 0..len(data), also on runs
\* that end in an error; _consume advances it by 1, _read by the requested
\* length, _read_until by the bytes scanned plus the delimiter, and a failing
\* _read or _read_until leaves it where it was.
CursorDiscipline == [][CursorStep]_vars

\* C9, witness: a string was read inside a container, after the cursor moved on.
CursorWitness ==
    /\ outcome = "returned"
    /\ stack = <<>>
    /\ ret.t = "list" /\ Len(ret.items) = 2
    /\ ret.items[2].t = "bytes" /\ Len(ret.items[2].b) = 1
    /\ index = Len(data)

\* A loop iteration of _decode_list or _decode_dict is about to complete.
IterationEnds ==
    /\ pc = "return"
    /\ stack # <<>>
    /\ Head(stack).kind = "list" \/ Head(stack).phase = "obj"

\* C10: every iteration of the list loop and of the dict loop that completes
\* has strictly advanced the cursor, and decode ends on every buffer.
DecodeTerminates ==
    /\ [][IterationEnds' => index' > Head(stack').at]_vars
    /\ <>Finished

\* C10, witness: decode met the terminator right after a dict key, returned
\* None without consuming it, and the dict loop went on to end.
TerminatesWitness ==
    /\ outcome = "returned"
    /\ ret.t = "dict" /\ Len(ret.pairs) = 1
    /\ ret.pairs[1][2].t = "none"

(***************************************************************************)
(* Properties of TrackerResponse and Tracker.                              *)
(***************************************************************************)
\* The numbers of a dotted-quad text.
RECURSIVE QuadFields(_, _)
QuadFields(text, field) ==
    IF text = <<>> THEN <<DigitsVal(field, 0)>>
    ELSE IF Head(text) = 46
    THEN <<DigitsVal(field, 0)>> \o QuadFields(Tail(text), <<>>)
    ELSE QuadFields(Tail(text), Append(field, Head(text)))

Stages == <<"GET", "read", "decode">>

IsGet(stage) == stage = "GET"

\* C7: a connect call sends one GET and never another; a status other than
\* 200 fails with ConnectionError before the body is read or decoded; then a
\* body that is valid text containing "failure" fails with ConnectionError
\* before the Decoder runs; otherwise the body is decoded, and a
\* TrackerResponse is returned exactly when decode returned a map.
ConnectOrder ==
    /\ Len(SelectSeq(log, IsGet)) <= 1
    /\ Len(log) <= Len(Stages)
    /\ \A k \in 1..Len(log) : log[k] = Stages[k]
    /\ (cpc = "done" /\ coutcome # "cancelled") =>
          IF status # 200
          THEN coutcome = "raised" /\ cerr = "ConnectionError" /\ log = <<"GET">>
          ELSE IF Utf8Valid(body) /\ Contains(body, FAILURE)
          THEN /\ coutcome = "raised" /\ cerr = "ConnectionError"
               /\ log = <<"GET", "read">>
          ELSE /\ log = Stages
               /\ data = body
               /\ IF outcome = "returned" /\ ret.t = "dict"
                  THEN coutcome = "returned" /\ response = ret.pairs
                  ELSE /\ coutcome = "raised"
                       /\ cerr = (IF outcome = "raised" THEN err ELSE "TypeError")

\* C7, witness: a binary body that holds the bytes "failure" got past the
\* heuristic, was decoded to a map and returned.
ConnectWitness ==
    /\ cpc = "done"
    /\ coutcome = "returned"
    /\ ~Utf8Valid(body)
    /\ Contains(body, FAILURE)
    /\ log = Stages

\* C8: the session is released exactly once via close, no request or
\* connection stays held after connect ended, whichever way it ended, and the
\* session does not stay acquired forever.
SessionReleased ==
    /\ [](cpc = "done" => conn = "none")
    /\ [](closes <= 1)
    /\ (cpc = "done") ~> (session = "closed")

====
